---- MODULE Spec2Model ----
(***************************************************************************)
(* MagCast render pipeline: RenderingService (processRenderJob,            *)
(* cancelRenderJob, cleanup, updateJobProgress), the render_jobs table of  *)
(* the SQLite-backed MemStorage, and the PDFRenderer / HTMLRenderer        *)
(* adapters as far as processRenderJob drives them; the PATCH route of the  *)
(* render jobs; PDFRenderer.initialize / close called by themselves;       *)
(* LayoutEngine.decideLayout as a function of the article's metrics;       *)
(* TemplateGenerator.generateMagazine, generateTableOfContents and         *)
(* generateArticleHtml; and the issues, articles and images tables with    *)
(* processJsonIssue, deleteIssue and deleteArticle.                        *)
(*                                                                         *)
(* JavaScript runs each continuation to its next real suspension point     *)
(* without interruption, so one action is one continuation: the code       *)
(* between the completion of one asynchronous operation (a database        *)
(* statement, a browser call) and the start of the next.  A database       *)
(* UPDATE and the continuation that awaits it are separate steps: other    *)
(* requests can run in between.                                            *)
(***************************************************************************)
EXTENDS Integers, Sequences, FiniteSets, TLC

\* ---------------------------------------------------------------- bounds
MaxJobs == 1          \* render jobs that can be created
MaxArticles == 1      \* articles the repository returns for an issue
MaxCalls == 12        \* direct initialize() / close() calls on the PDFRenderer
MaxVariants == 2      \* variants of a template pack

JobIds == 1..MaxJobs

\* ------------------------------------------------------- render_jobs table
\* Columns of CREATE TABLE render_jobs.
RenderJobColumns ==
  {"id", "issueId", "templatePackId", "renderer", "status", "progress",
   "pdfUrl", "errorMessage", "successMessage", "metadata", "startedAt",
   "completedAt", "createdAt"}

\* The columns the modelled operations can change; the others keep the
\* value createRenderJob gave them.
RowFields == {"status", "progress", "pdfUrl", "errorMessage", "startedAt", "completedAt"}

Null == "null"
Now == "now"            \* new Date(): only "set or not" is observed

\* createRenderJob with the defaults of the POST /api/render-jobs body.
createRenderJob ==
  [status |-> "queued", progress |-> 0, pdfUrl |-> Null, errorMessage |-> Null,
   startedAt |-> Null, completedAt |-> Null]

\* UPDATE render_jobs SET <keys of updates> WHERE id = ?
\* The statement names every key of the update object as a column: a key
\* that is not a column of the table makes SQLite reject the statement
\* ("no such column") and the promise rejects; a missing row changes nothing.
updateRejected(updates) ==
  LET updateFields == (DOMAIN updates) \ {"id"}
  IN  updateFields = {} \/ ~(updateFields \subseteq RenderJobColumns)

\* A faulty UPDATE, without its WHERE id = ? clause.
updateRenderJob_NoWhere(jobs, id, updates) ==
  IF updateRejected(updates) \/ id \notin DOMAIN jobs
  THEN jobs
  ELSE [i \in DOMAIN jobs |->
          [f \in RowFields |-> IF f \in DOMAIN updates THEN updates[f] ELSE jobs[i][f]]]

updateRenderJob(jobs, id, updates) ==
  IF updateRejected(updates) \/ id \notin DOMAIN jobs
  THEN jobs
  ELSE [jobs EXCEPT ![id] =
          [f \in RowFields |-> IF f \in DOMAIN updates THEN updates[f] ELSE @[f]]]

\* ------------------------------------------------------ updateJobProgress
\* A Partial<RenderProgress> is a function whose domain is the set of the
\* fields that are present.
Has(p, f) == f \in DOMAIN p

Truthy(p, f) == Has(p, f) /\ p[f] # ""

\* errors.join('; ')
RECURSIVE Join(_)
Join(errs) ==
  IF Len(errs) = 0 THEN ""
  ELSE IF Len(errs) = 1 THEN errs[1]
  ELSE errs[1] \o "; " \o Join(Tail(errs))

\* The updateData object updateJobProgress builds from `progress`.
updateData(p) ==
  LET s1 == IF Truthy(p, "status") THEN ("status" :> p["status"]) ELSE <<>>
      s2 == IF Has(p, "progress") THEN ("progress" :> p["progress"]) ELSE <<>>
      s3 == IF Has(p, "errors") THEN ("errorMessage" :> Join(p["errors"]))
            ELSE IF Truthy(p, "message") THEN ("errorMessage" :> p["message"])
            ELSE <<>>
      s4 == IF Truthy(p, "pdfPath") THEN ("pdfUrl" :> p["pdfPath"]) ELSE <<>>
      s5 == IF Has(p, "warnings") THEN ("warnings" :> p["warnings"]) ELSE <<>>
      s6 == IF Has(p, "metadata") THEN ("metadata" :> p["metadata"]) ELSE <<>>
      s7 == IF Has(p, "status") /\ p["status"] = "processing"
            THEN ("startedAt" :> Now) ELSE <<>>
      s8 == IF Has(p, "status") /\ p["status"] \in {"completed", "failed"}
            THEN ("completedAt" :> Now) ELSE <<>>
  IN  s1 @@ s2 @@ s3 @@ s4 @@ s5 @@ s6 @@ s7 @@ s8

\* updateJobProgress: build updateData, await storage.updateRenderJob, and
\* swallow a rejection.
updateJobProgress(jobs, id, p) == updateRenderJob(jobs, id, updateData(p))

\* ------------------------------------------------------------ LayoutEngine
\* Font sizes and line heights are in hundredths (950 is 9.5pt, 135 is 1.35);
\* an optional member that is absent is the empty tuple.
\* `undefined` where a number is expected (an absent heroHeight), and NaN
Undefined == -1

\* defaultRules of parseRules
DefaultRules ==
  [font_min |-> 950, font_max |-> 1050,
   line_height_min |-> 135, line_height_max |-> 150,
   hero_required_words |-> 200, max_images_per_column |-> 2]

\* Math.round(x / unit) * unit for x >= 0: halves round up
RoundTo(x, unit) == ((2 * x + unit) \div (2 * unit)) * unit

\* Math.round(num / den) for den # 0, on exact quotients: where the quotient
\* is exactly halfway, the binary value the code rounds can lie a last digit
\* below it and round down (1.455 becomes 1.45 for a 900-word article under
\* the default rules, 146 here); 1.425 is rounded up to 1.43 by both.
RoundDiv(num, den) ==
  IF den > 0 THEN (2 * num + den) \div (2 * den)
  ELSE (2 * (0 - num) - den) \div (2 * (0 - den))

\* Math.ceil(a / b) for a >= 0, b > 0
CeilDiv(a, b) == (a + b - 1) \div b

Max2(a, b) == IF a >= b THEN a ELSE b
Min2(a, b) == IF a <= b THEN a ELSE b

\* a || b on numbers: 0 is falsy
OrElse(a, b) == IF a # 0 THEN a ELSE b

calculateOptimalColumns(metrics) ==
  IF metrics.wordCount < 200 THEN 1
  ELSE IF metrics.wordCount < 500 THEN 2
  ELSE 3

\* A faulty optimizeTypography, which always takes the largest line height
\* of the range.
optimizeTypography_MaxLeading(rules, metrics, variant) ==
  LET body == variant.body
      baseFont == IF body # <<>> THEN OrElse(body[1], rules.font_min) ELSE rules.font_min
      maxFont == IF body # <<>> THEN OrElse(body[2], rules.font_max) ELSE rules.font_max
      byLength == IF metrics.wordCount < 300 THEN Min2(maxFont, baseFont + 50)
                  ELSE IF metrics.wordCount > 800 THEN Max2(baseFont, maxFont - 30)
                  ELSE baseFont + 20
      fontSize == IF variant.columns > 2 THEN Max2(baseFont, byLength - 20)
                  ELSE byLength
  IN  [fontSize |-> RoundTo(fontSize, 10),
       lineHeight |-> IF body # <<>> THEN OrElse(body[4], rules.line_height_max)
                      ELSE rules.line_height_max]

\* optimizeTypography: fontSize rounded to one decimal, lineHeight to two.
\* The ratio is NaN or infinite when maxFont = baseFont; lineHeight is then
\* Undefined here (no number).
optimizeTypography(rules, metrics, variant) ==
  LET body == variant.body
      baseFont == IF body # <<>> THEN OrElse(body[1], rules.font_min) ELSE rules.font_min
      maxFont == IF body # <<>> THEN OrElse(body[2], rules.font_max) ELSE rules.font_max
      baseLineHeight == IF body # <<>> THEN OrElse(body[3], rules.line_height_min)
                        ELSE rules.line_height_min
      maxLineHeight == IF body # <<>> THEN OrElse(body[4], rules.line_height_max)
                       ELSE rules.line_height_max
      byLength == IF metrics.wordCount < 300 THEN Min2(maxFont, baseFont + 50)
                  ELSE IF metrics.wordCount > 800 THEN Max2(baseFont, maxFont - 30)
                  ELSE baseFont + 20
      fontSize == IF variant.columns > 2 THEN Max2(baseFont, byLength - 20)
                  ELSE byLength
      lineHeight ==
        IF maxFont = baseFont THEN Undefined
        ELSE RoundDiv(baseLineHeight * (maxFont - baseFont)
                        + (maxLineHeight - baseLineHeight) * (fontSize - baseFont),
                      maxFont - baseFont)
  IN  [fontSize |-> RoundTo(fontSize, 10), lineHeight |-> lineHeight]

\* estimateTextHeight(...) > 1000, with the height
\* ceil(estimatedLines / columns) * fontSize * lineHeight * 1.33.
\* For an integer a, a * 133 > n exactly when a > n \div 133.
\* A comparison with NaN is false.
textOverflows(metrics, fontSize, lineHeight, columns) ==
  /\ lineHeight # Undefined
  /\ CeilDiv(metrics.estimatedLines, columns) * fontSize * lineHeight
       > (1000 * 100 * 100 * 100) \div 133

\* evaluateVariant: the decision for one variant.  `variant.id` is the
\* variant's position in the pack's list.
evaluateVariant(rules, variant, metrics) ==
  LET tooManyColumns == variant.columns > calculateOptimalColumns(metrics)
      heroUsed == variant.hero # <<>> /\ metrics.hasHero
      heroLong == heroUsed /\ metrics.wordCount >= rules.hero_required_words
      heroMissing == variant.hero # <<>> /\ ~metrics.hasHero
                       /\ metrics.wordCount > rules.hero_required_words
      typo == optimizeTypography(rules, metrics, variant)
      atMin == typo.fontSize <= rules.font_min
      atMax == typo.fontSize >= rules.font_max
      overflow == textOverflows(metrics, typo.fontSize, typo.lineHeight, variant.columns)
      tooManyImages == metrics.inlineImages > variant.columns * rules.max_images_per_column
      narrow == metrics.hasLongParagraphs /\ variant.columns > 2
      pullquote == variant.pullquote # <<>> /\ variant.pullquote[1]
                     /\ metrics.paragraphCount >= OrElse(variant.pullquote[2], 3)
      score == 100
                 - (IF tooManyColumns THEN 15 ELSE 0)
                 + (IF heroLong THEN 10 ELSE 0)
                 - (IF heroUsed /\ ~heroLong THEN 5 ELSE 0)
                 - (IF heroMissing THEN 20 ELSE 0)
                 - (IF atMin THEN 25 ELSE 0)
                 - (IF atMax THEN 10 ELSE 0)
                 - (IF overflow THEN 30 ELSE 0)
                 - (IF tooManyImages THEN 15 ELSE 0)
                 - (IF narrow THEN 10 ELSE 0)
                 + (IF pullquote THEN 5 ELSE 0)
      warns ==
        (IF tooManyColumns
         THEN <<ToString(variant.columns) \o " columns may be too many for "
                  \o ToString(metrics.wordCount) \o " words">> ELSE <<>>)
        \o (IF heroMissing THEN <<"Long article would benefit from hero image">> ELSE <<>>)
        \o (IF atMin THEN <<"Font size at minimum limit">> ELSE <<>>)
        \o (IF atMax THEN <<"Font size at maximum limit">> ELSE <<>>)
        \o (IF overflow THEN <<"Text may overflow page boundaries">> ELSE <<>>)
        \o (IF tooManyImages THEN <<"Too many images for column layout">> ELSE <<>>)
        \o (IF narrow
            THEN <<"Long paragraphs in narrow columns may affect readability">>
            ELSE <<>>)
  IN  [variant |-> variant.id,
       fontSize |-> typo.fontSize,
       lineHeight |-> typo.lineHeight,
       heroHeight |-> IF heroLong THEN variant.hero[2]
                      ELSE IF heroUsed THEN variant.hero[1]
                      ELSE Undefined,
       columnCount |-> variant.columns,
       score |-> Max2(0, score),
       warnings |-> warns]

\* A faulty comparator step: an element goes before those of equal score.
insertByScore_Unstable(sorted, d) ==
  LET before == SelectSeq(sorted, LAMBDA x : x.score > d.score)
      after == SelectSeq(sorted, LAMBDA x : x.score <= d.score)
  IN  before \o <<d>> \o after

\* decisions.sort((a, b) => b.score - a.score): Array.prototype.sort is
\* stable, so an element stays behind the earlier elements of equal score.
insertByScore(sorted, d) ==
  LET before == SelectSeq(sorted, LAMBDA x : x.score >= d.score)
      after == SelectSeq(sorted, LAMBDA x : x.score < d.score)
  IN  before \o <<d>> \o after

RECURSIVE sortByScore(_)
sortByScore(decisions) ==
  IF Len(decisions) = 0 THEN <<>>
  ELSE insertByScore(sortByScore(SubSeq(decisions, 1, Len(decisions) - 1)),
                     decisions[Len(decisions)])

\* What a call gives: a returned value or a thrown error.
Returned(v) == [thrown |-> FALSE, value |-> v]
Thrown(msg) == [thrown |-> TRUE, value |-> msg]

\* getFallbackDecision(variants[0], metrics): reading `variant.columns` of
\* an undefined variant throws a TypeError.
getFallbackDecision(rules, variants, metrics) ==
  IF Len(variants) = 0
  THEN Thrown("TypeError: Cannot read properties of undefined (reading 'columns')")
  ELSE Returned([variant |-> variants[1].id,
                 fontSize |-> rules.font_min,
                 lineHeight |-> rules.line_height_min,
                 heroHeight |-> Undefined,
                 columnCount |-> Min2(2, variants[1].columns),
                 score |-> 50,
                 warnings |-> <<"Using fallback layout decision">>])

\* decideLayout, from the metrics analyzeArticle computed
decideLayout(rules, metrics, variants) ==
  LET decisions == [i \in 1..Len(variants) |->
                      evaluateVariant(rules, variants[i], metrics)]
      sorted == sortByScore(decisions)
  IN  IF Len(sorted) > 0 THEN Returned(sorted[1])
      ELSE getFallbackDecision(rules, variants, metrics)

\* ------------------------------------------------------------------ state
VARIABLES
  renderJobs,    \* render_jobs table: job id -> row
  files,         \* artifact files on disk: job id -> subset of {"pdf","html"}
  activeJobs,    \* RenderingService.activeJobs, keys in Map insertion order
  aborted,       \* signal.aborted of the AbortController of the job's call
  pc,            \* where the job's processRenderJob call stands
  loaded,        \* what the load stage got from the repository
  template,      \* result of generateMagazine, NoTemplate before
  renderer,      \* request.renderer once the dispatch has read it
  warnings,      \* local `warnings` of processRenderJob
  outputPath,    \* local `outputPath` ("" while unassigned)
  error,         \* message of the error the catch block received
  cancelPending, \* cancelRenderJob awaits its updateJobProgress
  cleanupPc,     \* where the cleanup() call stands
  cleanupSeen,   \* keys the Map iterator of cleanup() has passed
  cleanupJob,    \* job whose update cleanup() awaits (0: none)
  browser,       \* PDFRenderer.browser: 0 is null, n > 0 the n-th process
  isInitialized, \* PDFRenderer.isInitialized
  launches,      \* browser processes launched so far
  dead,          \* launched browser processes that have crashed
  closed,        \* launched browser processes ended by browser.close()
  adapterCall,   \* direct initialize() / close() call in flight, or "none"
  ncalls,        \* history: direct initialize() / close() calls made so far
  written,       \* history: progress values processRenderJob stored, in order
  cancelAt,      \* history: phase of the call when cancelRenderJob aborted it
  findings,      \* history: what validateTemplate met, where a run keeps note of it
  layoutIn,      \* decideLayout call: rules, metrics and variants (<<>>: none)
  layoutOut,     \* decideLayout call: <<result>> once it has returned or thrown
  composeIn,     \* generateMagazine call: pack, issue and articles (<<>>: none)
  composeOut,    \* generateMagazine call: <<result>> once it has returned or thrown
  htmlIn,        \* generateArticleHtml call: article body, images and decision
  htmlOut,       \* generateArticleHtml call: <<result>> once it has returned
  issues,        \* issues table: set of rows
  articles,      \* articles table: rows in insertion (rowid) order
  images,        \* images table: rows in insertion (rowid) order
  clock,         \* what new Date() returns now, in milliseconds
  uuids,         \* randomUUID() values handed out so far
  imported       \* history: the last processJsonIssue call and the calls so far

jobVars == <<loaded, template, renderer, warnings, outputPath, error>>
svcVars == <<activeJobs, aborted, cancelPending, cleanupPc, cleanupSeen, cleanupJob>>
pdfVars == <<browser, isInitialized, launches, dead, closed, adapterCall, ncalls>>
histVars == <<written, cancelAt, findings>>
layoutVars == <<layoutIn, layoutOut>>
composeVars == <<composeIn, composeOut, htmlIn, htmlOut>>
repoVars == <<issues, articles, images, clock, uuids, imported>>
vars == <<renderJobs, files, pc, jobVars, svcVars, pdfVars, histVars, layoutVars,
          composeVars, repoVars>>

NoTemplate == [decisions |-> -1, warnings |-> <<>>]
NotLoaded == [issue |-> FALSE, pack |-> FALSE, articles |-> -1]
NoError == "none"
NoFindings == [errors |-> FALSE, missingImages |-> FALSE, cssIssues |-> FALSE,
               failed |-> "not called"]

\* request.renderer: 'vivliostyle' takes the same branch as 'prince'
Renderers == {"puppeteer", "prince"}

\* The state after construction, for the job ids `ids`.
InitFor(ids) ==
  /\ renderJobs = <<>>
  /\ files = [j \in ids |-> {}]
  /\ activeJobs = <<>>
  /\ aborted = [j \in ids |-> FALSE]
  /\ pc = [j \in ids |-> "idle"]
  /\ loaded = [j \in ids |-> NotLoaded]
  /\ template = [j \in ids |-> NoTemplate]
  /\ renderer = [j \in ids |-> Null]
  /\ warnings = [j \in ids |-> <<>>]
  /\ outputPath = [j \in ids |-> ""]
  /\ error = [j \in ids |-> NoError]
  /\ cancelPending = [j \in ids |-> FALSE]
  /\ cleanupPc = "idle"
  /\ cleanupSeen = {}
  /\ cleanupJob = 0
  /\ browser = 0
  /\ isInitialized = FALSE
  /\ launches = 0
  /\ dead = {}
  /\ closed = {}
  /\ adapterCall = "none"
  /\ ncalls = 0
  /\ written = [j \in ids |-> <<>>]
  /\ cancelAt = [j \in ids |-> "none"]
  /\ findings = [j \in ids |-> NoFindings]

\* ------------------------------------------------- decideLayout, by itself
\* The inputs a decideLayout call is checked on.
WordCounts == {120, 250, 600, 900}

\* paragraphs, inline images, and whether a paragraph has over 100 words
ArticleProfiles == {<<2, 0, FALSE>>, <<5, 0, FALSE>>, <<5, 5, TRUE>>}

MetricsSet ==
  {[wordCount |-> w, paragraphCount |-> a[1], hasHero |-> h, inlineImages |-> a[2],
    hasLongParagraphs |-> a[3], estimatedLines |-> CeilDiv(w, 10)] :
      w \in WordCounts, h \in BOOLEAN, a \in ArticleProfiles}

\* variants of a template pack, without their ids
VariantShapes ==
  [columns : 1..3,
   hero : {<<>>, <<30, 50>>},
   body : {<<>>, <<925, 1200, 140, 160>>},
   pullquote : {<<>>, <<TRUE, 3>>}]

\* templatePack.variants: the id of a variant is its position in the list
VariantLists(max) ==
  UNION {{[i \in 1..n |-> [id |-> i] @@ shapes[i]] :
            shapes \in [1..n -> VariantShapes]} : n \in 0..max}

\* rules of the pack merged over the defaults by parseRules
RuleSets ==
  {DefaultRules, [DefaultRules EXCEPT !.font_min = 1000, !.font_max = 1010]}

NoLayoutInput == <<>>

LayoutIdle == layoutIn = NoLayoutInput /\ layoutOut = <<>>

\* no generateMagazine and no generateArticleHtml call
ComposeIdle == composeIn = <<>> /\ composeOut = <<>> /\ htmlIn = <<>> /\ htmlOut = <<>>

NoImport == [calls |-> 0, existed |-> FALSE, rejected |-> FALSE, issue |-> 0, json |-> <<>>]

\* initializeDatabaseSchema drops and recreates the tables
RepoEmpty ==
  /\ issues = {}
  /\ articles = <<>>
  /\ images = <<>>
  /\ clock = 0
  /\ uuids = 0
  /\ imported = NoImport

\* A LayoutEngine is constructed for a pack and decideLayout is called for
\* one article.
DecideLayout ==
  /\ layoutIn # NoLayoutInput
  /\ layoutOut = <<>>
  /\ layoutOut' = <<decideLayout(layoutIn.rules, layoutIn.metrics, layoutIn.variants)>>
  /\ UNCHANGED <<renderJobs, files, pc, jobVars, svcVars, pdfVars, histVars, layoutIn,
                 composeVars, repoVars>>

Init == InitFor(JobIds) /\ LayoutIdle /\ ComposeIdle /\ RepoEmpty

\* ------------------------------------------------------------ Map helpers
Keys(seq) == {seq[i] : i \in 1..Len(seq)}

\* Map.delete(key)
MapDelete(seq, k) == SelectSeq(seq, LAMBDA x : x # k)

\* Map.set(key, value) of a key that may already be present
MapSet(seq, k) == IF k \in Keys(seq) THEN seq ELSE Append(seq, k)

\* ------------------------------------------------------- processRenderJob
JobCancelled == "Job was cancelled"
FallbackWarning ==
  "PDF rendering unavailable in this environment, generated HTML preview instead"

\* The argument of each updateJobProgress call of processRenderJob.
StageUpdate(n, msg) ==
  ("status" :> "processing") @@ ("progress" :> n) @@ ("message" :> msg)

CompletedUpdate(path, warns) ==
  ("status" :> "completed") @@ ("progress" :> 100)
    @@ ("message" :> "Rendering completed successfully")
    @@ ("pdfPath" :> path) @@ ("warnings" :> warns)

FailedUpdate(msg, errs) ==
  ("status" :> "failed") @@ ("progress" :> 0) @@ ("message" :> msg)
    @@ ("errors" :> errs)

\* pc values at which an updateJobProgress of the call is in flight, and the
\* pc of the continuation that awaits it.
WritePcs == {"w10", "w25", "w50", "w70", "w85", "w95", "w100", "wFail"}

ResumePc(w) ==
  CASE w = "w10" -> "r10"
    [] w = "w25" -> "r25"
    [] w = "w50" -> "r50"
    [] w = "w70" -> "r70"
    [] w = "w85" -> "r85"
    [] w = "w95" -> "r95"
    [] w = "w100" -> "r100"
    [] w = "wFail" -> "rFail"

PendingUpdate(j) ==
  CASE pc[j] = "w10" -> StageUpdate(10, "Loading data...")
    [] pc[j] = "w25" -> StageUpdate(25, "Generating layout...")
    [] pc[j] = "w50" -> StageUpdate(50, "Optimizing layout decisions...")
    [] pc[j] = "w70" -> StageUpdate(70, "Rendering PDF...")
    [] pc[j] = "w85" -> StageUpdate(85, "Generating output...")
    [] pc[j] = "w95" -> StageUpdate(95, "Finalizing...")
    [] pc[j] = "w100" -> CompletedUpdate(outputPath[j], warnings[j])
    [] pc[j] = "wFail" -> FailedUpdate("Rendering failed", <<error[j]>>)

\* loadIssue / loadTemplatePack / loadArticles: "ok" or the message thrown.
\* A faulty loadIssue, without its `if (!issue) throw`.
loadIssue_NoThrow(found) == "ok"

loadIssue(found) == IF found THEN "ok" ELSE "Issue not found"

loadTemplatePack(found) == IF found THEN "ok" ELSE "Template pack not found"

\* A faulty loadArticles that throws on an empty list, as it once did.
loadArticles_ThrowOnEmpty(n) == IF n = 0 THEN "No articles found" ELSE "ok"

\* loadArticles returns what the repository returned, the empty list too.
loadArticles(n) == "ok"

\* throw inside the try block: the catch block takes the error and starts
\* its updateJobProgress.
Throw(j, msg) ==
  /\ error' = [error EXCEPT ![j] = msg]
  /\ pc' = [pc EXCEPT ![j] = "wFail"]

\* if (abortController.signal.aborted) throw new Error('Job was cancelled')
\* followed by the start of the next step at pc `next`.
CheckCancelled(j, next) ==
  IF aborted[j]
  THEN Throw(j, JobCancelled)
  ELSE /\ pc' = [pc EXCEPT ![j] = next]
       /\ UNCHANGED error

\* POST /api/render-jobs: createRenderJob, then processRenderJob up to its
\* first await (activeJobs.set and the first updateJobProgress call).
PostRenderJob(j) ==
  /\ j \notin DOMAIN renderJobs
  /\ j = Cardinality(DOMAIN renderJobs) + 1
  /\ renderJobs' = renderJobs @@ (j :> createRenderJob)
  /\ activeJobs' = MapSet(activeJobs, j)
  /\ pc' = [pc EXCEPT ![j] = "w10"]
  /\ UNCHANGED <<files, jobVars, aborted, cancelPending, cleanupPc, cleanupSeen,
                 cleanupJob, pdfVars, histVars, layoutVars, composeVars, repoVars>>

\* A faulty updateJobProgress, without its try/catch.
updateJobProgressSettles_NoCatch(dbRejects) ==
  IF dbRejects THEN "rejected" ELSE "resolved"

\* How the promise of updateJobProgress settles when storage.updateRenderJob
\* rejects (dbRejects) or not: its body is one try block whose catch logs
\* the error.
updateJobProgressSettles(dbRejects) == "resolved"

\* The updateJobProgress call in flight settles, the UPDATE having been
\* rejected or run.  A rejected promise would be thrown by the await: in the
\* try block into the catch block, in the catch block out of processRenderJob
\* by way of finally.
WriteSettles(j, dbRejects) ==
  /\ pc[j] \in WritePcs
  /\ LET p == PendingUpdate(j)
     IN  /\ renderJobs' = IF dbRejects THEN renderJobs
                          ELSE updateJobProgress(renderJobs, j, p)
         /\ written' = IF dbRejects THEN written
                       ELSE [written EXCEPT ![j] = Append(@, p["progress"])]
  /\ IF updateJobProgressSettles(dbRejects) = "resolved"
     THEN pc' = [pc EXCEPT ![j] = ResumePc(pc[j])] /\ UNCHANGED error
     ELSE IF pc[j] = "wFail"
          THEN pc' = [pc EXCEPT ![j] = "rThrow"] /\ UNCHANGED error
          ELSE Throw(j, "update failed")
  /\ UNCHANGED <<files, loaded, template, renderer, warnings, outputPath, svcVars,
                 pdfVars, cancelAt, findings, layoutVars, composeVars, repoVars>>

\* The database runs the UPDATE of the updateJobProgress call in flight; it
\* rejects an UPDATE that names a column the table does not have.
ProcessWrite(j) == WriteSettles(j, updateRejected(updateData(PendingUpdate(j))))

\* The database rejects the UPDATE of the catch block for a reason of its
\* own (the file is locked, the disk is full).
ProcessWriteFails(j) ==
  /\ pc[j] = "wFail"
  /\ WriteSettles(j, TRUE)

\* after progress 10: cancellation check, then Promise.all of the loads
AfterLoadStart(j) ==
  /\ pc[j] = "r10"
  /\ CheckCancelled(j, "load")
  /\ UNCHANGED <<renderJobs, files, loaded, template, renderer, warnings,
                 outputPath, svcVars, pdfVars, histVars, layoutVars, composeVars, repoVars>>

\* The loads settle.  Promise.all rejects with the error of whichever load
\* rejects first; otherwise the call goes on to updateJobProgress(25).
LoadData(j) ==
  /\ pc[j] = "load"
  /\ \E issueFound \in BOOLEAN, packFound \in BOOLEAN, n \in 0..MaxArticles :
       LET results == {loadIssue(issueFound), loadTemplatePack(packFound),
                       loadArticles(n)}
       IN  /\ loaded' = [loaded EXCEPT ![j] =
                 [issue |-> issueFound, pack |-> packFound, articles |-> n]]
           /\ IF results = {"ok"}
              THEN pc' = [pc EXCEPT ![j] = "w25"] /\ UNCHANGED error
              ELSE \E e \in results \ {"ok"} : Throw(j, e)
  /\ UNCHANGED <<renderJobs, files, template, renderer, warnings, outputPath,
                 svcVars, pdfVars, histVars, layoutVars, composeVars, repoVars>>

\* template.metadata of generateMagazine as processRenderJob uses it: the
\* number of decisions (one per article) and the decisions' warnings.
TemplateWarnings == {<<>>, <<"layout warning">>}

templateMetadata(n, warns) == [decisions |-> n, warnings |-> warns]

\* after progress 25: cancellation check, then generateMagazine (no await
\* inside: it runs to its end or throws), then updateJobProgress(50)
AfterDataLoaded(j) ==
  /\ pc[j] = "r25"
  /\ IF aborted[j]
     THEN Throw(j, JobCancelled) /\ UNCHANGED template
     ELSE \E throws \in BOOLEAN, warns \in TemplateWarnings :
            IF throws
            THEN Throw(j, "composition error") /\ UNCHANGED template
            ELSE /\ template' = [template EXCEPT ![j] =
                      templateMetadata(loaded[j].articles,
                                       IF loaded[j].articles = 0 THEN <<>> ELSE warns)]
                 /\ pc' = [pc EXCEPT ![j] = "w50"]
                 /\ UNCHANGED error
  /\ UNCHANGED <<renderJobs, files, loaded, renderer, warnings, outputPath,
                 svcVars, pdfVars, histVars, layoutVars, composeVars, repoVars>>

\* after progress 50: cancellation check, then updateJobProgress(70)
AfterDecisions(j) ==
  /\ pc[j] = "r50"
  /\ CheckCancelled(j, "w70")
  /\ UNCHANGED <<renderJobs, files, loaded, template, renderer, warnings,
                 outputPath, svcVars, pdfVars, histVars, layoutVars, composeVars, repoVars>>

\* after progress 70: updateJobProgress(85) at once
AfterRenderStart(j) ==
  /\ pc[j] = "r70"
  /\ pc' = [pc EXCEPT ![j] = "w85"]
  /\ UNCHANGED <<renderJobs, files, jobVars, svcVars, pdfVars, histVars, layoutVars, composeVars, repoVars>>

\* htmlRenderer.renderHTML and the rest of the fallback branch, then the
\* cancellation check that precedes updateJobProgress(95).  renderHTML writes
\* the file with writeFileSync before its promise settles, so the branch and
\* the check run in one continuation.
HtmlFallback(j) ==
  \E writeOk \in BOOLEAN :
    IF writeOk
    THEN /\ files' = [files EXCEPT ![j] = @ \cup {"html"}]
         /\ outputPath' = [outputPath EXCEPT ![j] = "/api/preview-files/file.html"]
         /\ warnings' = [warnings EXCEPT ![j] = Append(@, FallbackWarning)]
         /\ CheckCancelled(j, "w95")
    ELSE /\ Throw(j, "HTML rendering failed")
         /\ UNCHANGED <<files, outputPath, warnings>>

\* after progress 85: the dispatch on request.renderer.  For 'puppeteer'
\* pdfRenderer.initialize() runs up to puppeteer.launch, or returns at once
\* when isInitialized and validateTemplate opens its page.
AfterOutputStart(j) ==
  /\ pc[j] = "r85"
  /\ \E r \in Renderers :
       /\ renderer' = [renderer EXCEPT ![j] = r]
       /\ IF r = "puppeteer"
          THEN /\ pc' = [pc EXCEPT ![j] =
                           IF isInitialized THEN "validating" ELSE "launching"]
               /\ UNCHANGED <<files, outputPath, warnings, error>>
          ELSE HtmlFallback(j)
  /\ UNCHANGED <<renderJobs, loaded, template, svcVars, pdfVars, histVars, layoutVars, composeVars, repoVars>>

\* puppeteer.launch settles, inside the initialize() called by
\* processRenderJob ("launching") or by renderPDF ("launchingR").
LaunchDone(j) ==
  /\ pc[j] \in {"launching", "launchingR"}
  /\ \E ok \in BOOLEAN :
       IF ok
       THEN /\ browser' = launches + 1
            /\ launches' = launches + 1
            /\ isInitialized' = TRUE
            /\ UNCHANGED <<dead, closed, adapterCall, ncalls>>
            /\ pc' = [pc EXCEPT ![j] =
                        IF pc[j] = "launching" THEN "validating" ELSE "rendering"]
            /\ UNCHANGED <<files, outputPath, warnings, error>>
       ELSE /\ HtmlFallback(j)
            /\ UNCHANGED pdfVars
  /\ UNCHANGED <<renderJobs, loaded, template, renderer, svcVars, histVars, layoutVars, composeVars, repoVars>>

\* What a validateTemplate call meets: console 'error' messages or page
\* errors that arrive before it returns, images that are not complete or
\* have no width, style sheets without accessible rules, and whether a step
\* fails: browser.newPage() outside the try block, or setContent /
\* page.evaluate inside it (nothing else is recorded for a failed call).
Findings ==
  {f \in [errors : BOOLEAN, missingImages : BOOLEAN, cssIssues : BOOLEAN,
          failed : {"no", "in try", "newPage"}] :
     f.failed # "no" => (~f.errors /\ ~f.missingImages /\ ~f.cssIssues)}

\* validateTemplate: missing images and CSS issues are pushed to `warnings`;
\* isValid is errors.length === 0, and false from the catch block
validateTemplate(f) ==
  IF f.failed = "newPage" THEN "throws"
  ELSE IF f.failed = "in try" THEN "invalid"
  ELSE IF f.errors THEN "invalid"
  ELSE "valid"

\* validateTemplate settles: valid, not valid, or it throws.  browser.newPage()
\* of a browser whose process is gone rejects.  When valid, renderPDF starts:
\* it calls initialize() itself when browser is null.  `note` says whether
\* the run keeps note of what the call met.
Validate(j, note) ==
  /\ pc[j] = "validating"
  /\ \E f \in IF browser \in dead THEN {g \in Findings : g.failed = "newPage"}
              ELSE Findings :
       /\ findings' = IF note THEN [findings EXCEPT ![j] = f] ELSE findings
       /\ IF validateTemplate(f) = "valid"
          THEN /\ pc' = [pc EXCEPT ![j] =
                           IF browser = 0 THEN "launchingR" ELSE "rendering"]
               /\ UNCHANGED <<files, outputPath, warnings, error>>
          ELSE HtmlFallback(j)
  /\ UNCHANGED <<renderJobs, loaded, template, renderer, svcVars, pdfVars, written,
                 cancelAt, layoutVars, composeVars, repoVars>>

ValidateDone(j) == Validate(j, FALSE)

\* renderPDF settles.  On success the PDF is written with writeFileSync
\* (which may throw into the catch of the PDF branch) and `warnings` becomes
\* the render result's warnings, which start as a copy of the template's.
RenderDone(j) ==
  /\ pc[j] = "rendering"
  /\ \E rendered \in IF browser \in dead THEN {FALSE} ELSE BOOLEAN,
        writeOk \in BOOLEAN :
       IF rendered /\ writeOk
       THEN /\ files' = [files EXCEPT ![j] = @ \cup {"pdf"}]
            /\ outputPath' = [outputPath EXCEPT ![j] = "/api/downloads/file.pdf"]
            /\ warnings' = [warnings EXCEPT ![j] = template[j].warnings]
            /\ CheckCancelled(j, "w95")
       ELSE HtmlFallback(j)
  /\ UNCHANGED <<renderJobs, loaded, template, renderer, svcVars, pdfVars, histVars, layoutVars, composeVars, repoVars>>

\* after progress 95: the completing updateJobProgress at once
AfterFinalizing(j) ==
  /\ pc[j] = "r95"
  /\ pc' = [pc EXCEPT ![j] = "w100"]
  /\ UNCHANGED <<renderJobs, files, jobVars, svcVars, pdfVars, histVars, layoutVars, composeVars, repoVars>>

\* the last updateJobProgress of the try or of the catch block has settled:
\* finally { this.activeJobs.delete(jobId) } and the call returns, or
\* rejects when the catch block itself threw
Finally(j) ==
  /\ pc[j] \in {"r100", "rFail", "rThrow"}
  /\ activeJobs' = MapDelete(activeJobs, j)
  /\ pc' = [pc EXCEPT ![j] = IF pc[j] = "rThrow" THEN "rejected" ELSE "done"]
  /\ UNCHANGED <<renderJobs, files, jobVars, aborted, cancelPending, cleanupPc,
                 cleanupSeen, cleanupJob, pdfVars, histVars, layoutVars, composeVars, repoVars>>

\* -------------------------------------------------------- cancelRenderJob
\* Phase of a processRenderJob call, by its pc: up to the continuation that
\* follows progress 85 ("boundary"), between that continuation and the
\* artifact ("render"), after the artifact is written ("artifact"), or in
\* the catch block ("failing").
Phase(p) ==
  CASE p \in {"w10", "r10", "load", "w25", "r25", "w50", "r50",
              "w70", "r70", "w85", "r85"} -> "boundary"
    [] p \in {"launching", "launchingR", "validating", "rendering"} -> "render"
    [] p \in {"w95", "r95", "w100", "r100"} -> "artifact"
    [] OTHER -> "failing"

\* cancelRenderJob up to its await: abort the controller, drop the entry.
\* (For a job that is not in activeJobs the call returns false and changes
\* nothing.)
CancelRenderJob(j) ==
  /\ j \in Keys(activeJobs)
  /\ aborted' = [aborted EXCEPT ![j] = TRUE]
  /\ activeJobs' = MapDelete(activeJobs, j)
  /\ cancelPending' = [cancelPending EXCEPT ![j] = TRUE]
  /\ cancelAt' = [cancelAt EXCEPT ![j] = Phase(pc[j])]
  /\ UNCHANGED <<renderJobs, files, pc, jobVars, cleanupPc, cleanupSeen,
                 cleanupJob, pdfVars, written, findings, layoutVars, composeVars, repoVars>>

\* The database runs the UPDATE of cancelRenderJob.
CancelWrite(j) ==
  /\ cancelPending[j]
  /\ renderJobs' = updateJobProgress(renderJobs, j,
                     FailedUpdate("Job cancelled by user", <<JobCancelled>>))
  /\ cancelPending' = [cancelPending EXCEPT ![j] = FALSE]
  /\ UNCHANGED <<files, pc, jobVars, activeJobs, aborted, cleanupPc, cleanupSeen,
                 cleanupJob, pdfVars, histVars, layoutVars, composeVars, repoVars>>

\* ---------------------------------------------------------------- cleanup
\* One turn of `for (const [jobId, controller] of this.activeJobs)`: the
\* iterator yields the first key it has not passed yet and the call awaits
\* that job's update; when there is none the loop ends, the map is cleared
\* and pdfRenderer.close() starts.
CleanupTurn ==
  LET rest == SelectSeq(activeJobs, LAMBDA k : k \notin cleanupSeen)
  IN  IF Len(rest) > 0
      THEN /\ aborted' = [aborted EXCEPT ![Head(rest)] = TRUE]
           /\ cleanupSeen' = cleanupSeen \cup {Head(rest)}
           /\ cleanupJob' = Head(rest)
           /\ cleanupPc' = "await"
           /\ UNCHANGED activeJobs
      ELSE /\ activeJobs' = <<>>
           /\ cleanupPc' = IF browser # 0 THEN "closing" ELSE "done"
           /\ cleanupJob' = 0
           /\ UNCHANGED <<aborted, cleanupSeen>>

\* cleanup() is called and runs to its first await.
CleanupCall ==
  /\ cleanupPc = "idle"
  /\ CleanupTurn
  /\ UNCHANGED <<renderJobs, files, pc, jobVars, cancelPending, pdfVars, histVars, layoutVars, composeVars, repoVars>>

\* The database runs the UPDATE cleanup() awaits.
CleanupWrite ==
  /\ cleanupPc = "await"
  /\ renderJobs' = updateJobProgress(renderJobs, cleanupJob,
                     FailedUpdate("Service shutdown", <<"Service was shut down">>))
  /\ cleanupPc' = "resume"
  /\ UNCHANGED <<files, pc, jobVars, activeJobs, aborted, cancelPending,
                 cleanupSeen, cleanupJob, pdfVars, histVars, layoutVars, composeVars, repoVars>>

\* cleanup() resumes after an awaited update: the next turn of the loop.
CleanupNext ==
  /\ cleanupPc = "resume"
  /\ CleanupTurn
  /\ UNCHANGED <<renderJobs, files, pc, jobVars, cancelPending, pdfVars, histVars, layoutVars, composeVars, repoVars>>

\* pdfRenderer.close(): browser.close() has settled
CloseDone ==
  /\ cleanupPc = "closing"
  /\ closed' = closed \cup {browser}
  /\ browser' = 0
  /\ isInitialized' = FALSE
  /\ cleanupPc' = "done"
  /\ UNCHANGED <<renderJobs, files, pc, jobVars, activeJobs, aborted,
                 cancelPending, cleanupSeen, cleanupJob, launches, dead, adapterCall, ncalls,
                 histVars, layoutVars, composeVars, repoVars>>

\* ------------------------------------------------------------------ Next
\* Render jobs and their cancellation.
Next ==
  \/ \E j \in JobIds : PostRenderJob(j)
  \/ \E j \in JobIds : ProcessWrite(j)
  \/ \E j \in JobIds : AfterLoadStart(j)
  \/ \E j \in JobIds : LoadData(j)
  \/ \E j \in JobIds : AfterDataLoaded(j)
  \/ \E j \in JobIds : AfterDecisions(j)
  \/ \E j \in JobIds : AfterRenderStart(j)
  \/ \E j \in JobIds : AfterOutputStart(j)
  \/ \E j \in JobIds : LaunchDone(j)
  \/ \E j \in JobIds : ValidateDone(j)
  \/ \E j \in JobIds : RenderDone(j)
  \/ \E j \in JobIds : AfterFinalizing(j)
  \/ \E j \in JobIds : Finally(j)
  \/ \E j \in JobIds : CancelRenderJob(j)
  \/ \E j \in JobIds : CancelWrite(j)

Spec == Init /\ [][Next]_vars

\* The same, keeping note of what validateTemplate met.
NextValidate ==
  \/ \E j \in JobIds : PostRenderJob(j)
  \/ \E j \in JobIds : ProcessWrite(j)
  \/ \E j \in JobIds : AfterLoadStart(j)
  \/ \E j \in JobIds : LoadData(j)
  \/ \E j \in JobIds : AfterDataLoaded(j)
  \/ \E j \in JobIds : AfterDecisions(j)
  \/ \E j \in JobIds : AfterRenderStart(j)
  \/ \E j \in JobIds : AfterOutputStart(j)
  \/ \E j \in JobIds : LaunchDone(j)
  \/ \E j \in JobIds : Validate(j, TRUE)
  \/ \E j \in JobIds : RenderDone(j)
  \/ \E j \in JobIds : AfterFinalizing(j)
  \/ \E j \in JobIds : Finally(j)
  \/ \E j \in JobIds : CancelRenderJob(j)
  \/ \E j \in JobIds : CancelWrite(j)

SpecValidate == Init /\ [][NextValidate]_vars

\* The same as Next, with a database that can reject the update of the catch
\* block as it rejects the completing update of the try block.
NextFaulty ==
  \/ Next
  \/ \E j \in JobIds : ProcessWriteFails(j)

SpecFaulty == Init /\ [][NextFaulty]_vars

\* The same with a cleanup() call (service shutdown) at any moment.
NextShutdown ==
  \/ Next
  \/ CleanupCall
  \/ CleanupWrite
  \/ CleanupNext
  \/ CloseDone

SpecShutdown == Init /\ [][NextShutdown]_vars

\* ------------------------------------------------ PATCH /api/render-jobs/:id
\* The route hands req.body to storage.updateRenderJob as it is: any subset
\* of columns with any values, an empty object, or a key that is no column.
PatchBodies ==
  {("status" :> st) : st \in {"queued", "processing", "completed", "failed"}}
    \cup {("status" :> "completed") @@ ("progress" :> 100)
            @@ ("pdfUrl" :> "/api/downloads/other.pdf"),
          ("progress" :> 50),
          ("errorMessage" :> Null),
          ("warnings" :> "w"),
          <<>>}

PatchRenderJob(j) ==
  /\ j \in DOMAIN renderJobs
  /\ \E body \in PatchBodies :
       renderJobs' = updateRenderJob(renderJobs, j, body)
  /\ UNCHANGED <<files, pc, jobVars, svcVars, pdfVars, histVars, layoutVars, composeVars, repoVars>>

\* Render jobs, their cancellation, and PATCH requests of API clients.
NextPatch ==
  \/ Next
  \/ \E j \in JobIds : PatchRenderJob(j)

SpecPatch == Init /\ [][NextPatch]_vars

\* Two render jobs in flight at once: the routes start processRenderJob
\* without awaiting it, so a second POST can arrive at any moment.
PairIds == {1, 2}

InitPair == InitFor(PairIds) /\ LayoutIdle /\ ComposeIdle /\ RepoEmpty

NextPair ==
  \/ \E j \in PairIds : PostRenderJob(j)
  \/ \E j \in PairIds : ProcessWrite(j)
  \/ \E j \in PairIds : AfterLoadStart(j)
  \/ \E j \in PairIds : LoadData(j)
  \/ \E j \in PairIds : AfterDataLoaded(j)
  \/ \E j \in PairIds : AfterDecisions(j)
  \/ \E j \in PairIds : AfterRenderStart(j)
  \/ \E j \in PairIds : AfterOutputStart(j)
  \/ \E j \in PairIds : LaunchDone(j)
  \/ \E j \in PairIds : ValidateDone(j)
  \/ \E j \in PairIds : RenderDone(j)
  \/ \E j \in PairIds : AfterFinalizing(j)
  \/ \E j \in PairIds : Finally(j)
  \/ \E j \in PairIds : CancelRenderJob(j)
  \/ \E j \in PairIds : CancelWrite(j)

SpecPair == InitPair /\ [][NextPair]_vars

\* ------------------------------------------- PDFRenderer.initialize / close
\* Sequential calls on the adapter: the next call starts when the previous
\* one has settled.
\* A faulty initialize(), without its `if (this.isInitialized) return`.
initializeReturnsAtOnce_Never(initialized) == FALSE

\* if (this.isInitialized) return;
initializeReturnsAtOnce(initialized) == initialized

\* initialize() up to its return or to the await of puppeteer.launch
InitializeCall ==
  /\ adapterCall = "none"
  /\ ncalls < MaxCalls
  /\ ncalls' = ncalls + 1
  /\ adapterCall' = IF initializeReturnsAtOnce(isInitialized) THEN "none"
                    ELSE "initialize"
  /\ UNCHANGED <<renderJobs, files, pc, jobVars, svcVars, browser,
                 isInitialized, launches, dead, closed, histVars, layoutVars, composeVars, repoVars>>

\* puppeteer.launch settles: the new process is stored and isInitialized
\* set, or the call throws 'PDF Renderer initialization failed'.
LaunchSettled ==
  /\ adapterCall = "initialize"
  /\ adapterCall' = "none"
  /\ \E ok \in BOOLEAN :
       IF ok
       THEN /\ browser' = launches + 1
            /\ launches' = launches + 1
            /\ isInitialized' = TRUE
       ELSE UNCHANGED <<browser, launches, isInitialized>>
  /\ UNCHANGED <<renderJobs, files, pc, jobVars, svcVars, dead, closed, ncalls,
                 histVars, layoutVars, composeVars, repoVars>>

\* close() up to its return (browser is null) or to the await of
\* browser.close()
CloseCall ==
  /\ adapterCall = "none"
  /\ ncalls < MaxCalls
  /\ ncalls' = ncalls + 1
  /\ adapterCall' = IF browser # 0 THEN "close" ELSE "none"
  /\ UNCHANGED <<renderJobs, files, pc, jobVars, svcVars, browser,
                 isInitialized, launches, dead, closed, histVars, layoutVars, composeVars, repoVars>>

\* browser.close() settles: the process has ended and the fields are reset,
\* or it rejects and close() rejects with the fields as they were.
CloseSettled ==
  /\ adapterCall = "close"
  /\ adapterCall' = "none"
  /\ \E ok \in BOOLEAN :
       IF ok
       THEN /\ closed' = closed \cup {browser}
            /\ browser' = 0
            /\ isInitialized' = FALSE
       ELSE UNCHANGED <<closed, browser, isInitialized>>
  /\ UNCHANGED <<renderJobs, files, pc, jobVars, svcVars, launches, dead, ncalls,
                 histVars, layoutVars, composeVars, repoVars>>

NextAdapter ==
  \/ InitializeCall
  \/ LaunchSettled
  \/ CloseCall
  \/ CloseSettled

SpecAdapter == Init /\ [][NextAdapter]_vars

\* ---------------------------------------------------- renderer process crash
\* The browser process dies while no processRenderJob call is in flight.
\* PDFRenderer registers no 'disconnected' handler: its fields stay as they
\* are.
BrowserCrash ==
  /\ browser # 0
  /\ browser \notin dead
  /\ \A j \in DOMAIN renderJobs : pc[j] = "done"
  /\ dead' = dead \cup {browser}
  /\ UNCHANGED <<renderJobs, files, pc, jobVars, svcVars, browser,
                 isInitialized, launches, closed, adapterCall, ncalls, histVars, layoutVars, composeVars, repoVars>>

NextCrash ==
  \/ NextPair
  \/ BrowserCrash

SpecCrash == InitPair /\ [][NextCrash]_vars

\* A short article with one hero image, the default rules and two variants
\* that differ in columns and hero range.
ShortArticleWithHero ==
  [rules |-> DefaultRules,
   metrics |-> [wordCount |-> 120, paragraphCount |-> 5, hasHero |-> TRUE,
                inlineImages |-> 0, hasLongParagraphs |-> FALSE, estimatedLines |-> 12],
   variants |-> <<[id |-> 1, columns |-> 2, hero |-> <<30, 50>>, body |-> <<>>,
                   pullquote |-> <<>>],
                  [id |-> 2, columns |-> 3, hero |-> <<40, 60>>, body |-> <<>>,
                   pullquote |-> <<>>]>>]

\* One decideLayout call on any of the inputs.
InitLayout ==
  /\ InitFor(JobIds)
  /\ layoutIn \in [rules : RuleSets, metrics : MetricsSet,
                   variants : VariantLists(MaxVariants)] \cup {ShortArticleWithHero}
  /\ layoutOut = <<>>
  /\ ComposeIdle
  /\ RepoEmpty

NextLayout == DecideLayout

SpecLayout == InitLayout /\ [][NextLayout]_vars

TypeOK ==
  /\ DOMAIN renderJobs \subseteq DOMAIN pc
  /\ \A j \in DOMAIN renderJobs :
       /\ renderJobs[j].status \in {"queued", "processing", "completed", "failed"}
       /\ renderJobs[j].progress \in 0..100
  /\ Keys(activeJobs) \subseteq DOMAIN pc
  /\ browser \in 0..launches

\* ------------------------------------------------ generateMagazine, whole
\* An article of the list is [id, section, metrics]: metrics stands for the
\* article's text and images as analyzeArticle sees them.
MaxComposed == 3   \* articles in the list handed to generateMagazine

SectionNames == {"A", "B"}

\* Object.keys(sectionGroups) after the grouping loop: a key enters the
\* object when its section is first met.  (Object.entries would list
\* integer-like keys first, in ascending order: the section names here are
\* not integer-like.)
RECURSIVE sectionKeys(_)
sectionKeys(arts) ==
  IF arts = <<>> THEN <<>>
  ELSE LET before == sectionKeys(SubSeq(arts, 1, Len(arts) - 1))
           section == arts[Len(arts)].section
       IN  IF section \in Keys(before) THEN before ELSE Append(before, section)

\* the forEach over Object.entries(sectionGroups): one toc-section per key,
\* one toc-entry per article of the group, pageNumber += 1 after each entry
RECURSIVE tocSections(_, _, _)
tocSections(keys, arts, pageNumber) ==
  IF keys = <<>> THEN <<>>
  ELSE LET sectionArticles == SelectSeq(arts, LAMBDA a : a.section = Head(keys))
       IN  <<[section |-> Head(keys),
              entries |-> [i \in 1..Len(sectionArticles) |->
                             [article |-> sectionArticles[i].id,
                              page |-> pageNumber + i - 1]]]>>
           \o tocSections(Tail(keys), arts, pageNumber + Len(sectionArticles))

\* generateTableOfContents: `issue` is a parameter it never reads
generateTableOfContents(issue, arts) == tocSections(sectionKeys(arts), arts, 3)

\* the loop `for (const article of articles)` of generateMagazine, from the
\* state `acc` of its three accumulators: `steps` pairs each article with
\* what decideLayout does for it, and decideLayout's exception leaves the
\* loop and generateMagazine
RECURSIVE composeLoop(_, _)
composeLoop(steps, acc) ==
  IF steps = <<>> THEN Returned(acc)
  ELSE LET decision == Head(steps).decision
       IN  IF decision.thrown THEN decision
           ELSE composeLoop(Tail(steps),
                  [layoutDecisions |-> Append(acc.layoutDecisions, decision.value),
                   allWarnings |-> acc.allWarnings \o decision.value.warnings,
                   articleHtml |-> Append(acc.articleHtml, Head(steps).article)])

\* generateMagazine: articleHtml is the list of <article> blocks, each named
\* by the article whose HTML it wraps
generateMagazine(pack, issue, arts) ==
  LET tocHtml == generateTableOfContents(issue, arts)
      loop == composeLoop(
                [i \in 1..Len(arts) |->
                   [article |-> arts[i].id,
                    decision |-> decideLayout(pack.rules, arts[i].metrics, pack.variants)]],
                [layoutDecisions |-> <<>>, allWarnings |-> <<>>, articleHtml |-> <<>>])
  IN  IF loop.thrown THEN loop
      ELSE Returned([toc |-> tocHtml,
                     articleHtml |-> loop.value.articleHtml,
                     metadata |-> [pageCount |-> 2 + CeilDiv(Len(arts), 2) + Len(arts),
                                   layoutDecisions |-> loop.value.layoutDecisions,
                                   warnings |-> loop.value.allWarnings]])

\* The inputs a generateMagazine call is checked on.
ComposeMetrics ==
  {[wordCount |-> 120, paragraphCount |-> 5, hasHero |-> TRUE, inlineImages |-> 0,
    hasLongParagraphs |-> FALSE, estimatedLines |-> 12],
   [wordCount |-> 900, paragraphCount |-> 5, hasHero |-> FALSE, inlineImages |-> 5,
    hasLongParagraphs |-> TRUE, estimatedLines |-> 90]}

ComposeVariants ==
  <<[id |-> 1, columns |-> 2, hero |-> <<30, 50>>, body |-> <<>>, pullquote |-> <<>>],
    [id |-> 2, columns |-> 3, hero |-> <<>>, body |-> <<>>, pullquote |-> <<TRUE, 3>>]>>

\* packs whose variants list is empty (or not an array: generateMagazine
\* passes [] then), and a pack with two variants
ComposePacks ==
  {[rules |-> DefaultRules, variants |-> v] : v \in {<<>>, ComposeVariants}}

\* issue.sections: the section names in either order
ComposeIssues == {[sections |-> <<"A", "B">>], [sections |-> <<"B", "A">>]}

\* article lists: the id of an article is its position in the list
ArticleLists(max) ==
  UNION {{[i \in 1..n |-> [id |-> i] @@ shapes[i]] :
            shapes \in [1..n -> [section : SectionNames, metrics : ComposeMetrics]]} :
         n \in 0..max}

InitCompose ==
  /\ InitFor(JobIds)
  /\ LayoutIdle
  /\ RepoEmpty
  /\ composeIn \in [pack : ComposePacks, issue : ComposeIssues,
                    articles : ArticleLists(MaxComposed)]
  /\ composeOut = <<>>
  /\ htmlIn = <<>>
  /\ htmlOut = <<>>

\* A TemplateGenerator is constructed for a pack and generateMagazine is
\* called for an issue and its articles.
GenerateMagazine ==
  /\ composeIn # <<>>
  /\ composeOut = <<>>
  /\ composeOut' = <<generateMagazine(composeIn.pack, composeIn.issue, composeIn.articles)>>
  /\ UNCHANGED <<renderJobs, files, pc, jobVars, svcVars, pdfVars, histVars, layoutVars,
                 composeIn, htmlIn, htmlOut, repoVars>>

SpecCompose == InitCompose /\ [][GenerateMagazine]_vars

\* ------------------------------------------------------------- repository
\* The issues, articles and images tables of MemStorage.  Foreign keys are
\* declared but SQLite does not enforce them (no PRAGMA foreign_keys); the
\* UNIQUE constraints are enforced.  A storage call runs to its end before
\* the next one starts.
MaxImports == 3       \* processJsonIssue calls
MaxPayload == 1       \* articles of one payload
MaxLongImports == 2   \* processJsonIssue calls with longer payloads
MaxLongPayload == 2   \* articles of a longer payload

IssueKeys == {"X", "Y"}      \* jsonData.issue.id
ArticleSlugs == {"a", "b"}   \* jsonData.articles[].id, unique within a payload

\* payloads of up to `max` articles, each with no image or one

Payloads(max) ==
  UNION {{[issue |-> k, sections |-> <<"A", "B">>, articles |-> arts] :
            k \in IssueKeys,
            arts \in {a \in [1..n -> [id : ArticleSlugs, section : SectionNames,
                                      images : {0, 1}]] :
                        \A i, j \in 1..n : a[i].id = a[j].id => i = j}} :
         n \in 0..max}

\* the tables and the two sources of fresh values, as one value
Database == [issues |-> issues, articles |-> articles, images |-> images,
             clock |-> clock, uuids |-> uuids]

\* createIssue: INSERT INTO issues (the caller has checked issueId is free)
createIssue(db, insertIssue) ==
  [db EXCEPT !.uuids = @ + 1,
             !.issues = @ \cup {[id |-> db.uuids + 1, issueId |-> insertIssue.issueId,
                                 sections |-> insertIssue.sections,
                                 status |-> insertIssue.status]}]

\* updateIssue: UPDATE issues SET <keys of updates> WHERE id = ?
updateIssue(db, id, updates) ==
  [db EXCEPT !.issues = {IF row.id = id
                         THEN [f \in DOMAIN row |->
                                 IF f \in DOMAIN updates THEN updates[f] ELSE row[f]]
                         ELSE row : row \in db.issues}]

\* deleteIssue: DELETE FROM issues WHERE id = ? and nothing else
deleteIssue(db, id) == [db EXCEPT !.issues = {row \in @ : row.id # id}]

\* articleId TEXT UNIQUE NOT NULL: the INSERT of createArticle fails when any
\* row of the table, of whatever issue, has the articleId
articleIdTaken(db, articleId) ==
  \E i \in 1..Len(db.articles) : db.articles[i].articleId = articleId

\* createArticle, when the INSERT succeeds: createdAt is the time now
createArticle(db, insertArticle) ==
  [db EXCEPT !.uuids = @ + 1,
             !.articles = Append(@, [id |-> db.uuids + 1,
                                     issueId |-> insertArticle.issueId,
                                     articleId |-> insertArticle.articleId,
                                     section |-> insertArticle.section,
                                     createdAt |-> db.clock])]

\* createImage
createImage(db, insertImage) ==
  [db EXCEPT !.uuids = @ + 1,
             !.images = Append(@, [id |-> db.uuids + 1,
                                   articleId |-> insertImage.articleId])]

\* deleteArticle: the article's images first, then the article
deleteArticle(db, id) ==
  [db EXCEPT !.images = SelectSeq(@, LAMBDA row : row.articleId # id),
             !.articles = SelectSeq(@, LAMBDA row : row.id # id)]

\* getArticlesByIssue: SELECT ... WHERE issueId = ? ORDER BY createdAt DESC.
\* Rows with equal createdAt come in an order SQL leaves open, so this is
\* the set of the row lists the query can return.
getArticlesByIssue(db, issueId) ==
  LET rows == SelectSeq(db.articles, LAMBDA row : row.issueId = issueId)
      n == Len(rows)
  IN  {[i \in 1..n |-> rows[p[i]]] :
         p \in {q \in [1..n -> 1..n] :
                  /\ \A i, j \in 1..n : q[i] = q[j] => i = j
                  /\ \A i, j \in 1..n :
                       i < j => rows[q[i]].createdAt >= rows[q[j]].createdAt}}

\* `await this.deleteArticle(article.id)` for each of the rows
RECURSIVE deleteArticles(_, _)
deleteArticles(db, rows) ==
  IF rows = <<>> THEN db
  ELSE deleteArticles(deleteArticle(db, Head(rows).id), Tail(rows))

\* createImage, `count` times
RECURSIVE createImages(_, _, _)
createImages(db, articleRowId, count) ==
  IF count = 0 THEN db
  ELSE createImages(createImage(db, [articleId |-> articleRowId]), articleRowId, count - 1)

\* the loop over jsonData.articles from its k-th article on; elapsed[k] is
\* the time that passes before the k-th createArticle reads the clock.  A
\* rejected INSERT rejects processJsonIssue there: what was stored stays.
RECURSIVE importArticles(_, _, _, _, _)
importArticles(db, issueRowId, arts, elapsed, k) ==
  IF k > Len(arts) THEN [db |-> db, rejected |-> FALSE]
  ELSE LET now == [db EXCEPT !.clock = @ + elapsed[k]]
       IN  IF articleIdTaken(now, arts[k].id)
           THEN [db |-> now, rejected |-> TRUE]
           ELSE LET created == createArticle(now, [issueId |-> issueRowId,
                                                   articleId |-> arts[k].id,
                                                   section |-> arts[k].section])
                IN  importArticles(createImages(created, created.uuids, arts[k].images),
                                   issueRowId, arts, elapsed, k + 1)

\* SELECT * FROM issues WHERE issueId = ?  (issueId is UNIQUE)
getIssueByIssueId(db, issueId) == {row \in db.issues : row.issueId = issueId}

\* processJsonIssue
processJsonIssue(db, jsonData, elapsed) ==
  LET existingIssue == getIssueByIssueId(db, jsonData.issue)
      issueRowId == IF existingIssue # {} THEN (CHOOSE row \in existingIssue : TRUE).id
                    ELSE db.uuids + 1
      cleared ==
        IF existingIssue # {}
        THEN LET updated == updateIssue(db, issueRowId,
                              [sections |-> jsonData.sections, status |-> "processing"])
             IN  deleteArticles(updated,
                                CHOOSE rows \in getArticlesByIssue(updated, issueRowId) : TRUE)
        ELSE createIssue(db, [issueId |-> jsonData.issue, sections |-> jsonData.sections,
                              status |-> "processing"])
      done == importArticles(cleared, issueRowId, jsonData.articles, elapsed, 1)
  IN  [db |-> IF done.rejected THEN done.db
              ELSE updateIssue(done.db, issueRowId, [status |-> "draft"]),
       rejected |-> done.rejected,
       existed |-> existingIssue # {},
       issue |-> issueRowId]

Store(db) ==
  /\ issues' = db.issues
  /\ articles' = db.articles
  /\ images' = db.images
  /\ clock' = db.clock
  /\ uuids' = db.uuids

\* POST /api/issues/import with a payload that passed jsonIssueSchema, one
\* of `payloads`, while fewer than `maxCalls` imports have been made
Import(maxCalls, payloads) ==
  /\ imported.calls < maxCalls
  /\ \E jsonData \in payloads :
       \E elapsed \in [1..Len(jsonData.articles) -> {0, 1}] :
         LET call == processJsonIssue(Database, jsonData, elapsed)
         IN  /\ Store(call.db)
             /\ imported' = [calls |-> imported.calls + 1, existed |-> call.existed,
                             rejected |-> call.rejected, issue |-> call.issue,
                             json |-> jsonData]
  /\ UNCHANGED <<renderJobs, files, pc, jobVars, svcVars, pdfVars, histVars, layoutVars,
                 composeVars>>

ProcessJsonIssue == Import(MaxImports, Payloads(MaxPayload))

\* DELETE /api/issues/:id
DeleteIssue ==
  /\ \E row \in issues : Store(deleteIssue(Database, row.id))
  /\ UNCHANGED <<renderJobs, files, pc, jobVars, svcVars, pdfVars, histVars, layoutVars,
                 composeVars, imported>>

\* storage.deleteArticle(id)
DeleteArticle ==
  /\ \E i \in 1..Len(articles) : Store(deleteArticle(Database, articles[i].id))
  /\ UNCHANGED <<renderJobs, files, pc, jobVars, svcVars, pdfVars, histVars, layoutVars,
                 composeVars, imported>>

\* Imports of payloads of at most MaxPayload articles, and deletions.
NextIntake ==
  \/ ProcessJsonIssue
  \/ DeleteIssue
  \/ DeleteArticle

SpecIntake == Init /\ [][NextIntake]_vars

\* Fewer imports of longer payloads: what a render job can find when it loads
\* the articles of an issue.
NextLoad ==
  \/ Import(MaxLongImports, Payloads(MaxLongPayload))
  \/ DeleteArticle

SpecLoad == Init /\ [][NextLoad]_vars

\* -------------------------------------------- generateArticleHtml, by itself
\* article.bodyHtml is `paragraphs` elements <p>...</p>, so split('</p>')
\* gives paragraphs + 1 pieces, the last one empty.  Its text is given by the
\* lengths of the trimmed pieces of stripHtml(bodyHtml).split(/[.!?]+/).
MaxParagraphs == 4   \* <p> elements of a body
MaxInline == 3       \* images of role 'inline'
MaxSentences == 2    \* sentences of a body

SentenceLengths == {30, 40, 80, 120}

\* variant.pullquote of the chosen variant: absent, or <<allow, min_paragraph>>
PullquotePolicies == {<<>>, <<FALSE, 2>>, <<TRUE, 2>>, <<TRUE, 3>>}

\* bodyHtml.split('</p>').length
pieceCount(article) == article.paragraphs + 1

\* calculateImagePositions: the 0-based piece index of each image
calculateImagePositions(paragraphCount, imageCount) ==
  LET spacing == paragraphCount \div (imageCount + 1)
  IN  [i \in 1..imageCount |-> spacing * i]

\* extractPullquote: <<length of the first sentence that passes the filter>>,
\* or <<>> for null
extractPullquote(sentences) ==
  LET suitable == SelectSeq(sentences, LAMBDA length : length > 40 /\ length < 120)
  IN  IF Len(suitable) > 0 THEN <<Head(suitable)>> ELSE <<>>

\* generateArticleHtml: what is appended to each piece of the body, the
\* inline images (by 0-based index into inlineImages) and then the pullquote
generateArticleHtml(article, decision) ==
  LET count == pieceCount(article)
      insertPositions == calculateImagePositions(count, article.inlineImages)
      imagesAt(k) ==
        SelectSeq([i \in 1..article.inlineImages |-> i - 1],
                  LAMBDA index : /\ insertPositions[index + 1] < count
                                 /\ insertPositions[index + 1] = k - 1)
      pullquote == decision.pullquote
      pullquoteText ==
        IF /\ pullquote # <<>>
           /\ pullquote[1]
           /\ count >= OrElse(pullquote[2], 3)
        THEN extractPullquote(article.sentences)
        ELSE <<>>
      middleIndex == count \div 2
  IN  [hero |-> article.hasHero /\ decision.heroHeight # 0,
       pieces |-> [k \in 1..count |->
                     [images |-> IF article.inlineImages > 0 THEN imagesAt(k) ELSE <<>>,
                      pullquotes |-> IF k - 1 = middleIndex THEN pullquoteText ELSE <<>>]]]

\* The inputs a generateArticleHtml call is checked on.
ArticleBodies(maxParagraphs, maxInline, maxSentences) ==
  [paragraphs : 0..maxParagraphs,
   inlineImages : 0..maxInline,
   hasHero : BOOLEAN,
   sentences : UNION {[1..n -> SentenceLengths] : n \in 0..maxSentences}]

InitArticle ==
  /\ InitFor(JobIds)
  /\ LayoutIdle
  /\ RepoEmpty
  /\ composeIn = <<>>
  /\ composeOut = <<>>
  /\ htmlIn \in [article : ArticleBodies(MaxParagraphs, MaxInline, MaxSentences),
                 decision : [heroHeight : {0, 30}, pullquote : PullquotePolicies]]
  /\ htmlOut = <<>>

GenerateArticleHtml ==
  /\ htmlIn # <<>>
  /\ htmlOut = <<>>
  /\ htmlOut' = <<generateArticleHtml(htmlIn.article, htmlIn.decision)>>
  /\ UNCHANGED <<renderJobs, files, pc, jobVars, svcVars, pdfVars, histVars, layoutVars,
                 composeIn, composeOut, htmlIn, repoVars>>

SpecArticle == InitArticle /\ [][GenerateArticleHtml]_vars

\* ----------------------------------------------------------------- claims
Created == DOMAIN renderJobs

Range(seq) == {seq[i] : i \in 1..Len(seq)}

Terminal(row) == row.status \in {"completed", "failed"}

\* C1: the stored progress of a job never decreases from one update to the
\* next, and it is 100 exactly when the stored status is 'completed'.
C1_ProgressMonotone ==
  /\ [](\A j \in Created :
          (renderJobs[j].progress = 100) <=> (renderJobs[j].status = "completed"))
  /\ [][\A j \in Created : renderJobs'[j].progress >= renderJobs[j].progress]_vars

\* C2: the status only moves queued -> processing -> (completed | failed),
\* and once it is 'completed' or 'failed' no later write changes the row.
C2_TerminalIsFinal ==
  [][\A j \in Created :
       /\ Terminal(renderJobs[j]) => renderJobs'[j] = renderJobs[j]
       /\ renderJobs'[j].status # renderJobs[j].status =>
            \/ renderJobs[j].status = "queued" /\ renderJobs'[j].status = "processing"
            \/ renderJobs[j].status = "processing" /\ Terminal(renderJobs'[j])]_vars

\* C3: the update of the catch block sets the status to 'failed' and leaves
\* progress at the value of the last stage update before the failure.
C3_FailureKeepsProgress ==
  [][\A j \in Created :
       (pc[j] = "wFail" /\ pc'[j] = "rFail" /\ Len(written[j]) > 0) =>
          /\ renderJobs'[j].status = "failed"
          /\ renderJobs'[j].progress = written[j][Len(written[j])]]_vars

\* C4: a job cancelled at or before the point where processRenderJob passes
\* boundary 10, 25, 50, 70 or 85 (and that meets no other error) ends
\* 'failed' with an error message that contains "cancel", and no artifact
\* file has been written for it.
C4_CancelBeforeArtifact ==
  \A j \in Created :
    (cancelAt[j] = "boundary" /\ pc[j] = "done" /\ ~cancelPending[j]
       /\ error[j] \in {NoError, JobCancelled}) =>
       /\ renderJobs[j].status = "failed"
       /\ renderJobs[j].errorMessage = JobCancelled
       /\ files[j] = {}

\* C5: a job cancelled after its artifact has been written still ends
\* 'completed' with progress 100 and the artifact URL recorded.
C5_CancelAfterArtifact ==
  \A j \in Created :
    (cancelAt[j] = "artifact" /\ pc[j] = "done" /\ ~cancelPending[j]) =>
       /\ renderJobs[j].status = "completed"
       /\ renderJobs[j].progress = 100
       /\ renderJobs[j].pdfUrl = outputPath[j]

\* C6: the continuation after each of the boundaries 10, 25, 50, 70 and 85
\* checks the token, and when it finds the token set it throws 'Job was
\* cancelled' into the catch block instead of starting the next stage.
C6_CheckAfterEachBoundary ==
  [][\A j \in Created :
       (aborted[j] /\ pc[j] \in {"r10", "r25", "r50", "r70", "r85"}
          /\ pc'[j] # pc[j]) =>
          /\ pc'[j] = "wFail"
          /\ error'[j] = JobCancelled
          /\ files'[j] = files[j]]_vars

\* C7: a 'puppeteer' job that is not cancelled, whose PDF branch failed and
\* whose HTML fallback was written, ends 'completed' with progress 100 and
\* the fallback warning among its warnings.
C7_FallbackCompletes ==
  \A j \in Created :
    (pc[j] = "done" /\ renderer[j] = "puppeteer" /\ "html" \in files[j]
       /\ ~aborted[j]) =>
       /\ FallbackWarning \in Range(warnings[j])
       /\ renderJobs[j].status = "completed"
       /\ renderJobs[j].progress = 100

\* The load stage found the issue or the template pack missing.
LoadUnresolved(j) ==
  loaded[j] # NotLoaded /\ ~(loaded[j].issue /\ loaded[j].pack)

FatalMessages ==
  {"Issue not found", "Template pack not found", JobCancelled,
   "Service was shut down"}

\* C8: when the issue or the template pack does not resolve at load time, no
\* layout decision is taken, no template is composed, no artifact is written,
\* and the call ends with the job 'failed' and an error message stored.
C8_UnresolvedInputFails ==
  \A j \in Created :
    LoadUnresolved(j) =>
      /\ template[j] = NoTemplate
      /\ files[j] = {}
      /\ pc[j] \in {"wFail", "rFail", "done"}
      /\ error[j] \in {"Issue not found", "Template pack not found"}
      /\ pc[j] \in {"rFail", "done"} =>
           /\ renderJobs[j].status = "failed"
           /\ renderJobs[j].errorMessage \in FatalMessages

C8_Witness ==
  \E j \in Created :
    /\ LoadUnresolved(j)
    /\ pc[j] = "done"
    /\ renderJobs[j].status = "failed"
    /\ renderJobs[j].errorMessage = "Issue not found"

\* The load stage found the issue and the pack, and no articles.
LoadedNoArticles(j) ==
  loaded[j].issue /\ loaded[j].pack /\ loaded[j].articles = 0

\* C9 as stated: a job whose issue has no articles ends 'failed'.
C9_NoArticlesFails ==
  \A j \in Created :
    (loaded[j].articles = 0 /\ pc[j] = "done" /\ ~cancelPending[j]) =>
       renderJobs[j].status = "failed"

\* C9 amended: an empty article list does not fail the load.  When the issue
\* and the pack resolve, the call goes on to progress 25 and the template it
\* composes has no layout decision; it fails only for another reason.
C9_NoArticlesProceeds ==
  \A j \in Created :
    LoadedNoArticles(j) =>
      /\ pc[j] = "w25" \/ 25 \in Range(written[j])
      /\ template[j] # NoTemplate => template[j].decisions = 0
      /\ error[j] \in {NoError, JobCancelled, "composition error",
                       "HTML rendering failed"}

C9_Witness ==
  \E j \in Created :
    /\ LoadedNoArticles(j)
    /\ template[j] # NoTemplate
    /\ files[j] # {}
    /\ pc[j] = "done"
    /\ renderJobs[j].status # "failed"

\* C10: a call that returns through the end of its try block (a successful
\* job) has stored the progress values 10, 25, 50, 70, 85, 95, 100 in order.
C10_ProgressSequence ==
  \A j \in Created :
    (pc[j] = "done" /\ error[j] = NoError) =>
       /\ renderJobs[j].status = "completed"
       /\ written[j] = <<10, 25, 50, 70, 85, 95, 100>>

\* C11: when a processRenderJob call has returned, the stored status of its
\* job is 'completed' or 'failed' and completedAt is set; no call leaves the
\* job 'queued' or 'processing'.
C11_ReturnsTerminal ==
  \A j \in Created :
    (pc[j] = "done" /\ ~cancelPending[j]) =>
       /\ Terminal(renderJobs[j])
       /\ renderJobs[j].completedAt # Null

\* C12: with two jobs in flight, no step of job a (a stage, a failure in its
\* catch block, cancelRenderJob(a) or the update it awaits) changes the row
\* or the cancellation token of another job b.
C12_JobsIsolated ==
  [][\A a \in DOMAIN pc : \A b \in Created :
       (a # b /\ (pc'[a] # pc[a] \/ cancelPending'[a] # cancelPending[a])) =>
          /\ renderJobs'[b] = renderJobs[b]
          /\ aborted'[b] = aborted[b]
          /\ (b \in Keys(activeJobs')) = (b \in Keys(activeJobs))]_vars

C12_Witness ==
  \E a \in Created : \E b \in Created :
    /\ a # b
    /\ cancelAt[a] # "none" /\ ~cancelPending[a]
    /\ pc[a] = "done" /\ renderJobs[a].status = "failed"
    /\ pc[b] = "done" /\ ~aborted[b] /\ error[b] = NoError
    /\ renderJobs[b].status = "processing" /\ renderJobs[b].progress = 95

\* C13: when a job's row already holds a fatal error (status 'failed', an
\* error message recorded by cancelRenderJob or cleanup), the update of the
\* catch block of the job's processRenderJob leaves that error message as
\* it is.
C13_FirstFatalErrorKept ==
  [][\A j \in Created :
       (pc[j] = "wFail" /\ pc'[j] = "rFail"
          /\ renderJobs[j].status = "failed"
          /\ renderJobs[j].errorMessage \in FatalMessages) =>
          renderJobs'[j].errorMessage = renderJobs[j].errorMessage]_vars

\* C14: in every reachable state a job stored as 'completed' has an artifact
\* URL, that of the file its processRenderJob call wrote, and a job stored
\* as 'failed' has a non-empty error message.
C14_TerminalRowsExposeResult ==
  \A j \in Created :
    /\ renderJobs[j].status = "completed" =>
         /\ renderJobs[j].pdfUrl \notin {Null, ""}
         /\ renderJobs[j].pdfUrl = outputPath[j]
         /\ files[j] # {}
    /\ renderJobs[j].status = "failed" =>
         renderJobs[j].errorMessage \notin {Null, ""}

\* C15: the warnings a call hands to its completing update (the warnings of
\* the completed job) contain every warning of the template's layout
\* decisions, after a PDF render and after an HTML fallback alike.
C15_WarningsReachJob ==
  \A j \in Created :
    (pc[j] \in {"w100", "r100", "done"} /\ error[j] = NoError) =>
       Range(template[j].warnings) \subseteq Range(warnings[j])

\* C16: whenever a job's primary render uses the adapter (validateTemplate
\* or renderPDF is running for it), the adapter holds a live renderer
\* process, also when the previous process crashed between two jobs.
C16_RendererAliveInUse ==
  \A j \in Created :
    pc[j] \in {"validating", "rendering"} => (browser # 0 /\ browser \notin dead)

\* Renderer processes the adapter has started and that have not ended.
Held == (1..launches) \ (closed \cup dead)

\* C17: for sequential initialize() and close() calls: initialize() on an
\* initialized adapter returns at once with the adapter's state unchanged,
\* close() on a closed adapter returns at once with the state unchanged,
\* a launch that succeeds stores a process that was never held before, and
\* at every point at most one process is held, the one in `browser`.
C17_InitializeCloseIdempotent ==
  /\ [](/\ Cardinality(Held) <= 1
        /\ Held = (IF browser = 0 THEN {} ELSE {browser})
        /\ isInitialized <=> (browser # 0))
  /\ [][/\ (ncalls' # ncalls /\ adapterCall' = "none") =>
             <<browser, isInitialized, launches, closed>>'
               = <<browser, isInitialized, launches, closed>>
        /\ (adapterCall = "none" /\ adapterCall' = "initialize") => ~isInitialized
        /\ (adapterCall = "none" /\ adapterCall' = "close") => isInitialized
        /\ (adapterCall = "initialize" /\ isInitialized') =>
             /\ browser' \notin (1..launches)
             /\ Held' = {browser'}]_vars

C17_Witness ==
  /\ ncalls >= 4
  /\ adapterCall = "none"
  /\ Cardinality(closed) = 1
  /\ launches = 2
  /\ isInitialized /\ browser = 2

\* The decision evaluateVariant gives for each variant of the call's input.
Candidates ==
  [i \in 1..Len(layoutIn.variants) |->
     evaluateVariant(layoutIn.rules, layoutIn.variants[i], layoutIn.metrics)]

\* C18: for a non-empty variant list decideLayout returns the candidate with
\* the maximal score, and among several of that score the one whose variant
\* comes first in the list.
C18_HighestScoreEarliestWins ==
  (layoutOut # <<>> /\ Len(layoutIn.variants) > 0) =>
     LET c == Candidates
     IN  /\ ~layoutOut[1].thrown
         /\ \E k \in DOMAIN c :
              /\ layoutOut[1].value = c[k]
              /\ \A i \in DOMAIN c :
                   /\ c[i].score <= c[k].score
                   /\ i < k => c[i].score < c[k].score

C18_Witness ==
  /\ layoutOut # <<>>
  /\ Len(layoutIn.variants) = 2
  /\ Candidates[1].score = Candidates[2].score
  /\ Candidates[1] # Candidates[2]
  /\ layoutOut[1].value.variant = 1

\* C19: the fontSize of the decision decideLayout returns lies between
\* rules.typography.font_min and rules.typography.font_max, for every word
\* count, variant (with or without its own body range) and rule set.
C19_FontSizeWithinRules ==
  (layoutOut # <<>> /\ ~layoutOut[1].thrown) =>
     /\ layoutIn.rules.font_min <= layoutOut[1].value.fontSize
     /\ layoutOut[1].value.fontSize <= layoutIn.rules.font_max

\* C20: called with an empty variants list, decideLayout returns (it does
\* not throw) the fallback decision: score 50, the one warning 'Using
\* fallback layout decision', fontSize rules.typography.font_min, lineHeight
\* rules.typography.line_height_min, columnCount 1.
C20_EmptyVariantsFallback ==
  (layoutOut # <<>> /\ Len(layoutIn.variants) = 0) =>
     /\ ~layoutOut[1].thrown
     /\ layoutOut[1].value.score = 50
     /\ layoutOut[1].value.warnings = <<"Using fallback layout decision">>
     /\ layoutOut[1].value.fontSize = layoutIn.rules.font_min
     /\ layoutOut[1].value.lineHeight = layoutIn.rules.line_height_min
     /\ layoutOut[1].value.columnCount = 1

\* the warnings of the decisions `ds`, concatenated in the order of `ds`
RECURSIVE warningsOf(_)
warningsOf(ds) == IF ds = <<>> THEN <<>> ELSE Head(ds).warnings \o warningsOf(Tail(ds))

\* C21: for every list of n articles generateMagazine emits n <article>
\* blocks and n layout decisions, the i-th of each for the i-th article of
\* the list, and metadata.warnings is the decisions' warnings concatenated
\* in that order.
C21_OneBlockAndDecisionPerArticle ==
  composeOut # <<>> =>
    LET arts == composeIn.articles
        out == composeOut[1]
    IN  /\ ~out.thrown
        /\ Len(out.value.articleHtml) = Len(arts)
        /\ Len(out.value.metadata.layoutDecisions) = Len(arts)
        /\ \A i \in 1..Len(arts) :
             /\ out.value.articleHtml[i] = arts[i].id
             /\ Returned(out.value.metadata.layoutDecisions[i]) =
                  decideLayout(composeIn.pack.rules, arts[i].metrics,
                               composeIn.pack.variants)
        /\ out.value.metadata.warnings = warningsOf(out.value.metadata.layoutDecisions)

\* the entries of the TOC sections `toc`, in the order they are shown
RECURSIVE tocEntries(_)
tocEntries(toc) == IF toc = <<>> THEN <<>> ELSE Head(toc).entries \o tocEntries(Tail(toc))

\* C22: the section groups of the table of contents appear in the order of
\* Issue.sections, the articles of a group in input order, and the page
\* numbers shown are 3, 4, 5, ... in TOC order.
C22_TocInIssueSectionsOrder ==
  (composeOut # <<>> /\ ~composeOut[1].thrown) =>
    LET arts == composeIn.articles
        toc == composeOut[1].value.toc
        used == {arts[i].section : i \in 1..Len(arts)}
        shown == tocEntries(toc)
    IN  /\ [g \in 1..Len(toc) |-> toc[g].section] =
             SelectSeq(composeIn.issue.sections, LAMBDA s : s \in used)
        /\ \A g \in 1..Len(toc) :
             LET group == SelectSeq(arts, LAMBDA a : a.section = toc[g].section)
             IN  [i \in 1..Len(toc[g].entries) |-> toc[g].entries[i].article] =
                   [i \in 1..Len(group) |-> group[i].id]
        /\ \A k \in 1..Len(shown) : shown[k].page = 2 + k

\* the position of x in the list seq
IndexOf(seq, x) == CHOOSE k \in 1..Len(seq) : seq[k] = x

\* the list `rows` of article rows is ordered by section, in the order of
\* the issue's `sections`, and inside a section by position in the table
OrderedBySectionThenInsertion(rows, sections, table) ==
  \A i, j \in 1..Len(rows) :
    i < j =>
      \/ IndexOf(sections, rows[i].section) < IndexOf(sections, rows[j].section)
      \/ /\ rows[i].section = rows[j].section
         /\ IndexOf(table, rows[i]) < IndexOf(table, rows[j])

\* C23: the article list a render job loads for an issue is ordered by
\* section and, within a section, by the order in which intake created the
\* articles.  (loadArticles returns the rows of getArticlesByIssue as they
\* come, and processRenderJob hands them to generateMagazine.)
C23_LoadedBySectionThenInsertion ==
  \A issue \in issues :
    \A rows \in getArticlesByIssue(Database, issue.id) :
      OrderedBySectionThenInsertion(rows, issue.sections, articles)

\* the articles the `table` holds for the issue row `id`, as a payload
\* names them
StoredArticles(table, id) ==
  LET rows == SelectSeq(table, LAMBDA row : row.issueId = id)
  IN  [i \in 1..Len(rows) |-> [id |-> rows[i].articleId, section |-> rows[i].section]]

\* C24: when processJsonIssue has re-imported a payload whose issue id
\* existed, the articles stored for the issue are exactly the payload's; and
\* whatever processJsonIssue, deleteArticle and deleteIssue calls were made,
\* every stored image belongs to a stored article.
C24_ReimportReplacesArticles ==
  /\ [][(imported'.calls > imported.calls /\ imported'.existed) =>
          StoredArticles(articles', imported'.issue) =
            [i \in 1..Len(imported'.json.articles) |->
               [id |-> imported'.json.articles[i].id,
                section |-> imported'.json.articles[i].section]]]_vars
  /\ [](\A i \in 1..Len(images) :
          \E k \in 1..Len(articles) : articles[k].id = images[i].articleId)

\* C25 as stated: for the short article with a hero image (120 words, 5
\* paragraphs), default rules and variants [1: 2 columns, hero 30/50;
\* 2: 3 columns, hero 40/60], decideLayout returns variant 1 with score 80
\* (variant 2 also scores 80), fontSize 10.0, lineHeight 1.5, heroHeight 30.
C25_ScenarioS1_AsStated ==
  (layoutIn = ShortArticleWithHero /\ layoutOut # <<>>) =>
    /\ ~layoutOut[1].thrown
    /\ layoutOut[1].value.variant = 1
    /\ layoutOut[1].value.score = 80
    /\ Candidates[2].score = 80
    /\ layoutOut[1].value.fontSize = 1000
    /\ layoutOut[1].value.lineHeight = 150
    /\ layoutOut[1].value.heroHeight = 30

\* C25: for the same input decideLayout returns variant 1 with score 80
\* (variant 2 also scores 80), fontSize 10.0, lineHeight 1.43 (the font is
\* halfway up its range, so the line height is halfway up its own), and
\* heroHeight 30.
C25_ScenarioS1 ==
  (layoutIn = ShortArticleWithHero /\ layoutOut # <<>>) =>
    /\ ~layoutOut[1].thrown
    /\ layoutOut[1].value.variant = 1
    /\ layoutOut[1].value.score = 80
    /\ Candidates[2].score = 80
    /\ layoutOut[1].value.fontSize = 1000
    /\ layoutOut[1].value.lineHeight = 143
    /\ layoutOut[1].value.heroHeight = 30

C25_Witness == layoutIn = ShortArticleWithHero /\ layoutOut # <<>>

\* C26: with P pieces of the body (split at '</p>') and N >= 1 inline
\* images, the i-th inline image (0-based) is appended after the piece at
\* index floor(P * (i + 1) / (N + 1)), and nowhere else.
C26_InlineImagesSpread ==
  (htmlOut # <<>> /\ htmlIn.article.inlineImages >= 1) =>
    LET P == pieceCount(htmlIn.article)
        N == htmlIn.article.inlineImages
    IN  \A i \in 0..(N - 1) :
          \A k \in 1..P :
            (i \in Range(htmlOut[1].pieces[k].images)) <=>
              (k - 1 = (P * (i + 1)) \div (N + 1))

\* the pullquote blocks of the article HTML `html`, piece by piece
RECURSIVE pullquotesOf(_)
pullquotesOf(pieces) ==
  IF pieces = <<>> THEN <<>> ELSE Head(pieces).pullquotes \o pullquotesOf(Tail(pieces))

\* C27: when the chosen variant allows pullquotes and the body has at least
\* min_paragraph paragraphs, the article HTML holds exactly one pullquote,
\* the first sentence of 40 to 120 characters (bounds included), at
\* paragraph index floor(P / 2) for P paragraphs; and none when no sentence
\* has such a length.
C27_OnePullquoteMidBody ==
  (/\ htmlOut # <<>>
   /\ htmlIn.decision.pullquote # <<>>
   /\ htmlIn.decision.pullquote[1]
   /\ htmlIn.article.paragraphs >= htmlIn.decision.pullquote[2]) =>
    LET P == htmlIn.article.paragraphs
        qualifying == SelectSeq(htmlIn.article.sentences,
                                LAMBDA length : length >= 40 /\ length <= 120)
        pieces == htmlOut[1].pieces
    IN  IF qualifying = <<>> THEN pullquotesOf(pieces) = <<>>
        ELSE /\ pullquotesOf(pieces) = <<Head(qualifying)>>
             /\ pieces[(P \div 2) + 1].pullquotes = <<Head(qualifying)>>

\* C28: when validateTemplate has found missing or broken images, or
\* malformed CSS rule sets, the job does not go on to the PDF render: it
\* takes the HTML fallback and no PDF is written for it.
C28_MissingImagesForceFallback ==
  \A j \in DOMAIN pc :
    (findings[j].missingImages \/ findings[j].cssIssues) =>
      /\ pc[j] \notin {"launchingR", "rendering"}
      /\ "pdf" \notin files[j]

\* C29: processRenderJob never rejects, whatever the outcome (a repository
\* update that fails included); when it has returned the job is not in
\* activeJobs, so a cancelRenderJob call made then returns false and writes
\* nothing: the job's row and the map stay as they are.
C29_NeverRejects ==
  /\ [](\A j \in DOMAIN pc :
          /\ pc[j] # "rejected"
          /\ pc[j] = "done" => j \notin Keys(activeJobs))
  /\ [][\A j \in DOMAIN pc :
          (pc[j] = "done" /\ ~cancelPending[j]) =>
            /\ renderJobs'[j] = renderJobs[j]
            /\ ~cancelPending'[j]
            /\ ~ENABLED CancelRenderJob(j)]_vars

\* The job's call has returned although the update of its catch block was
\* rejected by the database: the row still says 'processing'.
C29_Witness ==
  /\ pc[1] = "done"
  /\ ~cancelPending[1]
  /\ cancelAt[1] = "none"
  /\ error[1] # NoError
  /\ renderJobs[1].status = "processing"

\* C30: when two jobs call initialize() of the shared PDFRenderer while it
\* is cold, at most one browser process is launched and both use it: every
\* launched process that is still running is the one the adapter refers to.
C30_OneSharedBrowser ==
  /\ Cardinality(Held) <= 1
  /\ Held \subseteq {browser}

====
